---- MODULE Spec2Model ----
(***************************************************************************)
(* Model of wardbuddy's LearningInterface (learning_interface.py): the     *)
(* process_input coroutine, update_preferences, and the three Gradio event *)
(* handlers wired in create_interface (msg.submit, clear.click,            *)
(* retry.click).                                                           *)
(*                                                                         *)
(* Texts are sequences of tokens; a token is either a whitespace character *)
(* or a run of non-whitespace text.  Weights are in tenths (1.0 is 10).    *)
(***************************************************************************)
EXTENDS Integers, Sequences, FiniteSets, TLC

\* Bound: the number of non-blank submissions of one session.
MaxSubmissions == 2

\* Slider range and default, in tenths.
SliderMin == 5
SliderMax == 20
SliderDefault == 10

Whitespace == {" ", "\n"}

\* The texts a user can type into the msg textbox.
Messages ==
  { <<>>, <<" ", "\n">>, <<"chest pain">>, <<" ", "fever", "\n">> }

\* Raw texts the backend can answer with.
Responses == { <<"feedback">>, <<"\n", "feedback", " ">> }

\* Messages of the exceptions the backend call can raise.
Errors == { "timeout" }

\* Weight vectors (clinical_reasoning, medical_knowledge,
\* presentation_skills, differential_building) offered to the handlers.
PrefInputs == { <<10, 10, 10, 10>>, <<5, 20, 12, 17>>, <<3, 10, 25, 20>> }

PLEASE_PROVIDE == << "Please provide your case or question." >>
ERROR_TEXT == << "An error occurred. Please try again." >>

VARIABLES
  state,          \* the list held by gr.State: the session history
  chatbot,        \* the transcript shown by the Chatbot component
  msg,            \* the content of the msg textbox
  calls,          \* messages handed to tutor.process_interaction, in order
  submitted,      \* number of process_input invocations with a non-blank message
  pending,        \* calls whose coroutine is suspended at the await
  appended,       \* calls whose pair was appended to state, in append order
  errlog,         \* texts written by logger.error
  handed,         \* the dict last handed to tutor.update_feedback_preferences
  feedback_focus, \* what the tutor stores
  prefs_ret       \* the last return value of update_preferences

vars == << state, chatbot, msg, calls, submitted, pending, appended, errlog,
           handed, feedback_focus, prefs_ret >>

----------------------------------------------------------------------------
\* Pure helpers

RECURSIVE lstrip(_)
lstrip(s) ==
  IF s = <<>> THEN <<>>
  ELSE IF Head(s) \in Whitespace THEN lstrip(Tail(s)) ELSE s

RECURSIVE rstrip(_)
rstrip(s) ==
  IF s = <<>> THEN <<>>
  ELSE IF s[Len(s)] \in Whitespace THEN rstrip(SubSeq(s, 1, Len(s) - 1)) ELSE s

\* str.strip()
strip(s) == rstrip(lstrip(s))

\* utils.format_response: raw backend text to display text.
format_response(r) == strip(r)

\* str(e)
str(e) == << e >>

Turn(role, content) == [role |-> role, content |-> content]

\* history[:-1]
DropLast(h) == SubSeq(h, 1, Len(h) - 1)

Clamp(x) == IF x < SliderMin THEN SliderMin ELSE IF x > SliderMax THEN SliderMax ELSE x

\* ClinicalTutor.update_feedback_preferences: the set the tutor stores.
update_feedback_preferences(w) == [i \in DOMAIN w |-> Clamp(w[i])]

----------------------------------------------------------------------------
Init ==
  /\ state = <<>>
  /\ chatbot = <<>>
  /\ msg = <<>>
  /\ calls = <<>>
  /\ submitted = 0
  /\ pending = {}
  /\ appended = <<>>
  /\ errlog = <<>>
  /\ handed = << SliderDefault, SliderDefault, SliderDefault, SliderDefault >>
  /\ feedback_focus = << SliderDefault, SliderDefault, SliderDefault, SliderDefault >>
  /\ prefs_ret = << SliderDefault, SliderDefault, SliderDefault, SliderDefault >>

\* The user edits the msg textbox.
type(m) ==
  /\ msg' = m
  /\ UNCHANGED << state, chatbot, calls, submitted, pending, appended, errlog,
                  handed, feedback_focus, prefs_ret >>

\* Variant: the guard is "if not message", without strip().
process_input_blank_nostrip ==
  /\ strip(msg) = <<>>
  /\ IF msg = <<>>
       THEN /\ chatbot' = state
            /\ msg' = PLEASE_PROVIDE
            /\ UNCHANGED << calls, submitted, pending >>
       ELSE /\ submitted < MaxSubmissions
            /\ submitted' = submitted + 1
            /\ calls' = Append(calls, msg)
            /\ pending' = pending \cup { Len(calls) + 1 }
            /\ UNCHANGED << chatbot, msg >>
  /\ UNCHANGED << state, appended, errlog, handed, feedback_focus, prefs_ret >>

\* msg.submit with a blank message: process_input returns at once.
process_input_blank ==
  /\ strip(msg) = <<>>
  /\ chatbot' = state
  /\ msg' = PLEASE_PROVIDE
  /\ UNCHANGED << state, calls, submitted, pending, appended, errlog,
                  handed, feedback_focus, prefs_ret >>

\* msg.submit with a non-blank message: process_input runs up to the await.
process_input_call(w) ==
  /\ strip(msg) # <<>>
  /\ submitted < MaxSubmissions
  /\ submitted' = submitted + 1
  /\ handed' = w
  /\ feedback_focus' = update_feedback_preferences(w)
  /\ calls' = Append(calls, msg)
  /\ pending' = pending \cup { Len(calls) + 1 }
  /\ UNCHANGED << state, chatbot, msg, appended, errlog, prefs_ret >>

\* Variant: the except branch returns str(e).
process_input_failure_leak(c, e) ==
  /\ c \in pending
  /\ pending' = pending \ {c}
  /\ errlog' = Append(errlog, str(e))
  /\ chatbot' = state
  /\ msg' = str(e)
  /\ UNCHANGED << state, calls, submitted, appended, handed, feedback_focus,
                  prefs_ret >>

\* Variant: the except branch issues the backend call once more.
process_input_failure_retry(c, e) ==
  /\ c \in pending
  /\ pending' = (pending \ {c}) \cup { Len(calls) + 1 }
  /\ calls' = Append(calls, calls[c])
  /\ errlog' = Append(errlog, str(e))
  /\ chatbot' = state
  /\ msg' = ERROR_TEXT
  /\ UNCHANGED << state, submitted, appended, handed, feedback_focus,
                  prefs_ret >>

\* Variant: the except branch never returns, the coroutine stays suspended.
process_input_failure_stuck(c, e) ==
  /\ c \in pending
  /\ Len(errlog) < MaxSubmissions
  /\ errlog' = Append(errlog, str(e))
  /\ UNCHANGED << state, chatbot, msg, calls, submitted, pending, appended,
                  handed, feedback_focus, prefs_ret >>

\* Variant: the user turn is appended before the await.
process_input_failure_partial(c, e) ==
  /\ c \in pending
  /\ pending' = pending \ {c}
  /\ errlog' = Append(errlog, str(e))
  /\ state' = Append(state, Turn("user", calls[c]))
  /\ chatbot' = state'
  /\ msg' = ERROR_TEXT
  /\ UNCHANGED << calls, submitted, appended, handed, feedback_focus,
                  prefs_ret >>

\* The backend call of c raised e: the except branch.
process_input_failure(c, e) ==
  /\ c \in pending
  /\ pending' = pending \ {c}
  /\ errlog' = Append(errlog, str(e))
  /\ chatbot' = state
  /\ msg' = ERROR_TEXT
  /\ UNCHANGED << state, calls, submitted, appended, handed, feedback_focus,
                  prefs_ret >>

\* Variant: the user turn holds message.strip().
process_input_success_stripped(c, r) ==
  /\ c \in pending
  /\ pending' = pending \ {c}
  /\ state' = state \o << Turn("user", strip(calls[c])),
                          Turn("assistant", format_response(r)) >>
  /\ appended' = Append(appended, c)
  /\ chatbot' = state'
  /\ msg' = <<>>
  /\ UNCHANGED << calls, submitted, errlog, handed, feedback_focus, prefs_ret >>

\* The backend call of c returned r: format, append the pair, return.
process_input_success(c, r) ==
  /\ c \in pending
  /\ pending' = pending \ {c}
  /\ state' = state \o << Turn("user", calls[c]),
                          Turn("assistant", format_response(r)) >>
  /\ appended' = Append(appended, c)
  /\ chatbot' = state'
  /\ msg' = <<>>
  /\ UNCHANGED << calls, submitted, errlog, handed, feedback_focus, prefs_ret >>

update_preferences(w) ==
  /\ handed' = w
  /\ feedback_focus' = update_feedback_preferences(w)
  /\ prefs_ret' = w
  /\ UNCHANGED << state, chatbot, msg, calls, submitted, pending, appended,
                  errlog >>

\* clear.click: lambda: ([], "") into [chatbot, msg]
clear ==
  /\ chatbot' = <<>>
  /\ msg' = <<>>
  /\ UNCHANGED << state, calls, submitted, pending, appended, errlog,
                  handed, feedback_focus, prefs_ret >>

\* retry.click: lambda history: ... with inputs [state] into [chatbot, msg]
retry ==
  /\ IF state # <<>>
       THEN /\ chatbot' = DropLast(state)
            /\ msg' = state[Len(state)].content
       ELSE /\ chatbot' = state
            /\ msg' = <<>>
  /\ UNCHANGED << state, calls, submitted, pending, appended, errlog,
                  handed, feedback_focus, prefs_ret >>

Next ==
  \/ \E m \in Messages : type(m)
  \/ process_input_blank
  \/ \E w \in PrefInputs : process_input_call(w)
  \/ \E c \in pending, e \in Errors : process_input_failure(c, e)
  \/ \E c \in pending, r \in Responses : process_input_success(c, r)
  \/ \E w \in PrefInputs : update_preferences(w)
  \/ clear
  \/ retry

Spec == Init /\ [][Next]_vars

----------------------------------------------------------------------------
\* Session phase: AwaitingResponse while a coroutine is suspended at the await.
Phase == IF pending = {} THEN "Idle" ELSE "AwaitingResponse"

InRange(w) == \A i \in DOMAIN w : w[i] >= SliderMin /\ w[i] <= SliderMax

\* C1: submitting a blank (empty or whitespace-only) message makes no backend
\* call, returns the history with the same turns in the same order, and
\* returns the fixed text "Please provide your case or question.".
C1_BlankSubmission ==
  [][ process_input_blank =>
        /\ calls' = calls
        /\ pending' = pending
        /\ state' = state
        /\ chatbot' = state
        /\ msg' = PLEASE_PROVIDE ]_vars

C1_Witness ==
  /\ msg = PLEASE_PROVIDE
  /\ state # <<>>
  /\ chatbot = state

\* C2: a successful non-blank submission of message m extends the history by
\* exactly two turns, user m and then assistant with the formatted response;
\* the turns already there are kept in place.
C2_SuccessAppendsPair ==
  [][ \A c \in pending, r \in Responses :
        process_input_success(c, r) =>
          /\ Len(state') = Len(state) + 2
          /\ SubSeq(state', 1, Len(state)) = state
          /\ state'[Len(state) + 1] = [role |-> "user", content |-> calls[c]]
          /\ state'[Len(state) + 2] =
               [role |-> "assistant", content |-> format_response(r)]
          /\ chatbot' = state' ]_vars

C2_Witness ==
  /\ Len(state) = 4
  /\ state[3] = [role |-> "user", content |-> << " ", "fever", "\n" >>]
  /\ state[4] = [role |-> "assistant", content |-> << "feedback" >>]
  /\ chatbot = state

\* C3: when the backend call fails, the returned text is the fixed error text,
\* never the text of the error, and no turn is appended to the history.
C3_FailureKeepsHistory ==
  [][ \A c \in pending, e \in Errors :
        process_input_failure(c, e) =>
          /\ msg' = ERROR_TEXT
          /\ msg' # str(e)
          /\ state' = state
          /\ chatbot' = state ]_vars

C3_Witness ==
  /\ msg = ERROR_TEXT
  /\ errlog # <<>>
  /\ state # <<>>
  /\ chatbot = state

\* C4: retry on a history ending with a (user, assistant) pair removes both
\* turns of that pair and returns the content of the removed user turn.
C4_RetryRemovesPair ==
  [][ (retry /\ state # <<>>) =>
        /\ state' = SubSeq(state, 1, Len(state) - 2)
        /\ chatbot' = state'
        /\ msg' = state[Len(state) - 1].content ]_vars

\* C5: after clear, the displayed transcript and the history handed to the
\* next submission are both empty.
C5_ClearEmptiesHistory ==
  [][ clear => (chatbot' = <<>> /\ state' = <<>>) ]_vars

\* C6: the pairs of overlapping submissions are appended in submission order.
C6_SubmissionOrder ==
  \A i, j \in DOMAIN appended : i < j => appended[i] < appended[j]

\* C7: the weights handed to the tutor and returned to the caller lie in
\* [0.5, 2.0].
C7_WeightsInRange ==
  /\ InRange(handed)
  /\ InRange(prefs_ret)

\* C8: every non-blank submission issues exactly one backend call, also when
\* the call fails: the number of backend calls equals the number of
\* non-blank submissions.
C8_OneCallPerSubmission ==
  Len(calls) = submitted

C8_Witness ==
  /\ submitted >= 2
  /\ errlog # <<>>
  /\ appended # <<>>
  /\ pending = {}

\* C9: a call that resolves, with a response or an error, leaves
\* AwaitingResponse (the session is Idle when it was the only one in flight);
\* after a failed turn a non-blank submission is still accepted and its
\* success appends its pair.
C9_TurnCycle ==
  /\ [][ \A c \in pending :
           ( \/ \E e \in Errors : process_input_failure(c, e)
             \/ \E r \in Responses : process_input_success(c, r) )
           => /\ c \notin pending'
              /\ (pending = {c} => Phase' = "Idle") ]_vars
  /\ [][ (errlog # <<>> /\ strip(msg) # <<>> /\ submitted < MaxSubmissions)
           => ENABLED (\E w \in PrefInputs : process_input_call(w)) ]_vars
  /\ [][ \A c \in pending, r \in Responses :
           (errlog # <<>> /\ process_input_success(c, r))
           => state' = state \o << [role |-> "user", content |-> calls[c]],
                                   [role |-> "assistant",
                                    content |-> format_response(r)] >> ]_vars

C9_Witness ==
  /\ Phase = "Idle"
  /\ Len(errlog) = 1
  /\ appended = << 2 >>
  /\ Len(state) = 2

\* C10: the session history is a sequence of (user, assistant) pairs: even
\* length, user turns at even 0-based positions, assistant turns at odd ones,
\* and each pair belongs to one submission.
C10_StrictPairs ==
  /\ Len(state) = 2 * Len(appended)
  /\ \A k \in DOMAIN appended :
       /\ state[2 * k - 1] = [role |-> "user", content |-> calls[appended[k]]]
       /\ state[2 * k].role = "assistant"

C10_Witness ==
  /\ appended = << 2, 1 >>
  /\ Len(state) = 4
  /\ Len(chatbot) = 3

====
